---- MODULE Spec2Model ----
(***************************************************************************)
(* Model of bigmler's resumable command session: the main dispatcher       *)
(* (bigmler/dispatcher.py) and the cluster subcommand dispatcher           *)
(* (bigmler/cluster/dispatcher.py).  An invocation is a process that walks *)
(* through the statements of main_dispatcher / cluster_dispatcher and of   *)
(* compute_output; the files it shares with earlier invocations are the    *)
(* command log, the directory-stack log, the new-directories log, the      *)
(* session log of each output directory, the resources recorded there,    *)
(* the user's log file and the datasets of the remote cluster.             *)
(***************************************************************************)
EXTENDS Integers, Sequences, FiniteSets, TLC

VARIABLES
    cmdLog,     \* COMMAND_LOG of each program: lines [run, line]
    dirLog,     \* DIRS_LOG of each program: lines [run, dir]
    newDirsLog, \* u.NEW_DIRS_LOG (shared by both programs): lines [run]
    sessLog,    \* SESSIONS_LOG of every directory: lines [run, kind]
    proc,       \* the invocation in progress (or the last one that ended)
    nruns,      \* number of invocations started so far
    issued,     \* per program: non-resumed invocations that went through
                \* command_handling since the last --clear-logs invocation
    created,    \* per directory: the resources whose ids the processing
                \* stages have recorded there
    userLog,    \* the file given with --log-file: lines [run]
    clusterDatasets
                \* the centroids of the remote cluster for which the
                \* cluster records a dataset

vars ==
    <<cmdLog, dirLog, newDirsLog, sessLog, proc, nruns, issued, created,
      userLog, clusterDatasets>>

(***************************************************************************)
(* Bounds of the model.                                                    *)
(***************************************************************************)
MaxRuns == 3

\* longest token of a command line written character by character
MaxTokLen == 2

(***************************************************************************)
(* Programs and their log files.                                           *)
(***************************************************************************)
Progs == {"main", "cluster"}

(***************************************************************************)
(* Directories and paths.  A directory is [abs, kind, n]: kind "now" is    *)
(* the time-stamped default a.NOW of invocation n, "out" a directory given *)
(* with --output-dir, "pdir" the directory part of a --predictions path,   *)
(* "empty" the empty string (a bare file name has this dirname), "root"    *)
(* the file system root.  abs tells whether the path is written in its     *)
(* absolute form.                                                          *)
(***************************************************************************)
DirKinds == {"now", "out", "pdir", "empty", "root"}

MkDir(kind, n) == [abs |-> FALSE, kind |-> kind, n |-> n]

EmptyDir == MkDir("empty", 0)

NoDir == [abs |-> FALSE, kind |-> "none", n |-> 0]

RootDir == [abs |-> TRUE, kind |-> "root", n |-> 0]

NOW(run) == MkDir("now", run)

\* os.path.abspath: the absolute form of a directory (of "" it is the
\* working directory itself)
AbsPath(d) == [d EXCEPT !.abs = TRUE]

\* a path is [dir, base]; NoPath is Python's None
NoPath == [dir |-> NoDir, base |-> "none"]

\* os.path.join(directory, name)
PathJoin(d, base) == [dir |-> d, base |-> base]

\* os.path.dirname(path)
DirName(path) == path.dir

\* u.check_dir(path): makes sure the directory of path exists, returns it
CheckDir(path) == DirName(path)

\* The physical directories a session log can live in.
SessDirs ==
    {AbsPath(MkDir(k, 0)) : k \in {"out", "pdir", "empty"}}
        \cup {AbsPath(NOW(n)) : n \in 1..(MaxRuns + 1)}
        \cup {RootDir}

(***************************************************************************)
(* Command lines.  args is sys.argv[1:], a sequence of tokens; an option   *)
(* that takes a value is followed by its value token.                      *)
(***************************************************************************)
HasFlag(args, flag) == \E i \in 1..Len(args) : args[i] = flag

HasValue(args, opt, value) ==
    \E i \in 1..(Len(args) - 1) : args[i] = opt /\ args[i + 1] = value

\* Command.command: get_command_message(args), the program name followed by
\* the (quoted) arguments
GetCommandMessage(args) == <<"bigmler">> \o args

\* StoredCommand.args: shlex.split(command)[1:]
StoredArgs(command) == Tail(command)

\* the value of --predictions
ParsePredictions(args) ==
    IF HasValue(args, "--predictions", "p.csv")
    THEN PathJoin(EmptyDir, "p.csv")
    ELSE IF HasValue(args, "--predictions", "pdir/p.csv")
    THEN PathJoin(MkDir("pdir", 0), "p.csv")
    ELSE NoPath

\* the centroids of the remote cluster, by name
Centroids == {"c1", "c2"}

\* the values given to --cluster-datasets: a comma-separated list of
\* centroid names, or the empty string
ClusterDatasetsValues == {"", "c1", "c2", "c1,c2"}

\* args.cluster_datasets: the value of --cluster-datasets, "none" for None
ParseClusterDatasets(args) ==
    IF \E v \in ClusterDatasetsValues :
           HasValue(args, "--cluster-datasets", v)
    THEN CHOOSE v \in ClusterDatasetsValues :
             HasValue(args, "--cluster-datasets", v)
    ELSE "none"

\* args.cluster_datasets_: the names of the list
ClusterNames(value) ==
    IF value = "c1" THEN {"c1"}
    ELSE IF value = "c2" THEN {"c2"}
    ELSE IF value = "c1,c2" THEN {"c1", "c2"}
    ELSE {}

\* a.parse_and_check(command): the Namespace of the parsed flags
ParseAndCheck(args) ==
    [resume |-> HasFlag(args, "--resume"),
     debug |-> HasFlag(args, "--debug"),
     evaluate |-> HasFlag(args, "--evaluate"),
     output_dir |-> IF HasValue(args, "--output-dir", "out")
                    THEN MkDir("out", 0) ELSE NoDir,
     predictions |-> ParsePredictions(args),
     training_set |-> HasFlag(args, "--train"),
     test_set |-> HasFlag(args, "--test"),
     remote |-> HasFlag(args, "--remote"),
     cross_validation_rate |->
         IF HasFlag(args, "--cross-validation-rate") THEN 1 ELSE 0,
     description_ |-> HasFlag(args, "--description"),
     black_box |-> HasFlag(args, "--black-box"),
     white_box |-> HasFlag(args, "--white-box"),
     public_dataset |-> HasFlag(args, "--public-dataset"),
     public_cluster |-> HasFlag(args, "--public-cluster"),
     max_categories |-> IF HasFlag(args, "--max-categories") THEN 1 ELSE 0,
     objective_field |-> HasFlag(args, "--objective"),
     new_fields |-> HasFlag(args, "--new-fields"),
     dataset |-> HasFlag(args, "--dataset"),
     log_file |-> HasFlag(args, "--log-file"),
     votes_dirs |-> HasFlag(args, "--combine-votes"),
     test_split |-> IF HasFlag(args, "--test-split") THEN 1 ELSE 0,
     dataset_off |-> HasFlag(args, "--dataset-off"),
     test_datasets |-> HasFlag(args, "--test-datasets"),
     number_of_models |->
         IF HasFlag(args, "--number-of-models") THEN 2 ELSE 1,
     cluster |-> HasFlag(args, "--cluster"),
     cluster_datasets |-> ParseClusterDatasets(args)]

NoArgs == ParseAndCheck(<<>>)

(***************************************************************************)
(* Log files.                                                              *)
(***************************************************************************)
\* a LOG_FILES list that leaves the directory stack out
LOG_FILES_without_dirs == {"COMMAND_LOG", "NEW_DIRS_LOG"}

\* LOG_FILES = [COMMAND_LOG, DIRS_LOG, u.NEW_DIRS_LOG] of either dispatcher
LOG_FILES == {"COMMAND_LOG", "DIRS_LOG", "NEW_DIRS_LOG"}

\* clear_log_files opening the files in append mode: nothing is truncated
clear_log_files_append_mode(log_files, name, content) == content

\* clear_log_files(log_files), seen from one file: open(log_file, 'w')
\* truncates the file when it is one of log_files
clear_log_files(log_files, name, content) ==
    IF name \in log_files THEN <<>> ELSE content

\* command_handling without the test of command.resume
command_handling_logs_resume(args, run, log) ==
    Append(log, [run |-> run, line |-> GetCommandMessage(args)])

\* command_handling(args, log): the command log after the call; resume
\* calls are not logged
command_handling(args, run, log) ==
    IF ~HasFlag(args, "--resume")
    THEN Append(log, [run |-> run, line |-> GetCommandMessage(args)])
    ELSE log

\* the directory written as it is, not in its absolute form
record_dir_relative(log, run, directory) ==
    Append(log, [run |-> run, dir |-> directory])

\* directory_log.write("%s\n" % os.path.abspath(directory))
record_dir(log, run, directory) ==
    Append(log, [run |-> run, dir |-> AbsPath(directory)])

\* u.log_message(message, log_file=session_file): appends to the session
\* log of directory d
LogMessage(logs, d, run, kind) ==
    [logs EXCEPT ![AbsPath(d)] = Append(@, [run |-> run, kind |-> kind])]

Last(seq) == seq[Len(seq)]

(***************************************************************************)
(* Invocations.                                                            *)
(***************************************************************************)
Procs == {1, 2}

Ended == {"idle", "done", "failed", "killed"}

IdleProc ==
    [pc |-> "idle", prog |-> "main", run |-> 0, args |-> <<>>,
     command |-> <<>>, cargs |-> NoArgs, resume |-> FALSE, debug |-> FALSE,
     session_dir |-> NoDir, directory |-> NoDir, stored_dir |-> NoDir,
     path |-> NoDir, co_session_dir |-> NoDir,
     \* calls counts the remote calls, stages lists the stages entered,
     \* creations the resources asked to be created; recorded is what the
     \* run to resume had recorded in its directory; io holds the files
     \* whose opening or writing raised IOError
     calls |-> 0, stages |-> <<>>, creations |-> {}, recorded |-> {},
     exit |-> "none", io |-> {},
     \* fault names the check or the stage that ended the run with sys.exit
     fault |-> "none",
     \* dataset and test_dataset of compute_output; the models (or
     \* ensembles) and the datasets handed to evaluate; the centroids for
     \* which the cluster held a dataset (datasets) and those for which
     \* one was asked to be created (centroid_ids)
     dataset |-> "dataset", test_dataset |-> "none",
     evaluated |-> [what |-> "none", on |-> {}],
     datasets |-> {}, centroid_ids |-> {},
     killed_at |-> "none", prev_dir |-> NoDir]

\* the command lines tried one after the other on the main command
MainArgv ==
    {<<"--train">>,
     <<"--debug">>,
     <<"--train", "--output-dir", "out">>,
     <<"--train", "--clear-logs", "--output-dir", "out">>,
     <<"--resume">>,
     <<"--clear-logs", "--resume">>}

\* No invocation has run yet.  The new-directories log is written by
\* bigmler.utils, outside the dispatchers, and already holds a line.
Init ==
    /\ cmdLog = [g \in Progs |-> <<>>]
    /\ dirLog = [g \in Progs |-> <<>>]
    /\ newDirsLog = <<[run |-> 0]>>
    /\ sessLog = [d \in SessDirs |-> <<>>]
    /\ proc = [self \in Procs |-> IdleProc]
    /\ nruns = 0
    /\ issued = [g \in Progs |-> 0]
    /\ created = [d \in SessDirs |-> {}]
    /\ userLog = <<[run |-> 0]>>
    /\ clusterDatasets = {}

\* the shell starts `bigmler <args>` (prog "main") or `bigmler cluster <args>`;
\* prev_dir remembers the directory the invocation before it resumed in
Start(self, prog, args) ==
    /\ proc[self].pc \in Ended
    /\ nruns < MaxRuns
    /\ nruns' = nruns + 1
    /\ proc' = [proc EXCEPT ![self] =
                    [IdleProc EXCEPT !.pc = "clear_logs", !.prog = prog,
                                     !.run = nruns + 1, !.args = args,
                                     !.prev_dir = proc[self].stored_dir]]
    /\ UNCHANGED <<cmdLog, dirLog, newDirsLog, sessLog, issued, created,
                   userLog, clusterDatasets>>

\* main_dispatcher: if "--clear-logs" in args: clear_log_files(LOG_FILES)
ClearLogs(self) ==
    LET me == proc[self]
        files == IF HasFlag(me.args, "--clear-logs") THEN LOG_FILES ELSE {}
    IN  /\ me.pc = "clear_logs"
        /\ cmdLog' = [cmdLog EXCEPT ![me.prog] =
                          clear_log_files(files, "COMMAND_LOG", @)]
        /\ dirLog' = [dirLog EXCEPT ![me.prog] =
                          clear_log_files(files, "DIRS_LOG", @)]
        /\ newDirsLog' = clear_log_files(files, "NEW_DIRS_LOG", newDirsLog)
        /\ issued' = IF HasFlag(me.args, "--clear-logs")
                     THEN [issued EXCEPT ![me.prog] = 0] ELSE issued
        /\ proc' = [proc EXCEPT ![self].pc = "command_handling"]
        /\ UNCHANGED <<sessLog, nruns, created, userLog, clusterDatasets>>

\* command_handling over one command log for the two commands
CommandHandling_shared_log(self) ==
    LET me == proc[self]
    IN  /\ me.pc = "command_handling"
        /\ cmdLog' = [cmdLog EXCEPT !["main"] =
                          command_handling(me.args, me.run, @)]
        /\ issued' = IF HasFlag(me.args, "--resume") THEN issued
                     ELSE [issued EXCEPT ![me.prog] = @ + 1]
        /\ proc' = [proc EXCEPT ![self].pc = "parse",
                                ![self].command = GetCommandMessage(me.args)]
        /\ UNCHANGED <<dirLog, newDirsLog, sessLog, nruns, created, userLog,
                       clusterDatasets>>

\* main_dispatcher: command = command_handling(args, COMMAND_LOG)
CommandHandling(self) ==
    LET me == proc[self]
    IN  /\ me.pc = "command_handling"
        /\ cmdLog' = [cmdLog EXCEPT ![me.prog] =
                          command_handling(me.args, me.run, @)]
        /\ issued' = IF HasFlag(me.args, "--resume") THEN issued
                     ELSE [issued EXCEPT ![me.prog] = @ + 1]
        /\ proc' = [proc EXCEPT ![self].pc = "parse",
                                ![self].command = GetCommandMessage(me.args)]
        /\ UNCHANGED <<dirLog, newDirsLog, sessLog, nruns, created, userLog,
                       clusterDatasets>>

\* main_dispatcher: command_args = a.parse_and_check(command);
\* resume = command_args.resume
Parse(self) ==
    LET me == proc[self]
        command_args == ParseAndCheck(StoredArgs(me.command))
    IN  /\ me.pc = "parse"
        /\ proc' = [proc EXCEPT ![self].cargs = command_args,
                                ![self].resume = command_args.resume,
                                ![self].pc = IF command_args.resume
                                             THEN "restore" ELSE "output"]
        /\ UNCHANGED <<cmdLog, dirLog, newDirsLog, sessLog, nruns, issued,
                       created, userLog, clusterDatasets>>

\* default_output of main_dispatcher; DEFAULT_OUTPUT of cluster_dispatcher
DefaultOutput(prog, command_args) ==
    IF prog = "cluster" THEN "centroids.csv"
    ELSE IF command_args.evaluate THEN "evaluation" ELSE "predictions.csv"

\* StoredCommand(args, COMMAND_LOG, DIRS_LOG): the last line of each log.
\* Without a command line or a directory line there is nothing to resume.
CanRestore(prog) == cmdLog[prog] /= <<>> /\ dirLog[prog] /= <<>>

StoredCommand(prog) ==
    [command |-> Last(cmdLog[prog]).line,
     args |-> StoredArgs(Last(cmdLog[prog]).line),
     output_dir |-> Last(dirLog[prog]).dir]

\* the resume branch keeping the default output computed before it, from
\* the flags of the resume invocation, which has no --evaluate
RestoredArgs_stale_default(prog, stored_command) ==
    LET command_args == ParseAndCheck(stored_command.args)
    IN  IF command_args.predictions = NoPath
        THEN [command_args EXCEPT !.predictions =
                  PathJoin(stored_command.output_dir,
                           DefaultOutput(prog, NoArgs))]
        ELSE command_args

\* the resume branch: command_args of the restored command, predictions
\* defaulting to the stored output directory
RestoredArgs(prog, stored_command) ==
    LET command_args == ParseAndCheck(stored_command.args)
    IN  IF command_args.predictions = NoPath
        THEN [command_args EXCEPT !.predictions =
                  PathJoin(stored_command.output_dir,
                           DefaultOutput(prog, command_args))]
        ELSE command_args

\* a resume branch that also pushes a directory on the directory stack
Restore_recording_dir(self) ==
    LET me == proc[self]
        stored_command == StoredCommand(me.prog)
    IN  /\ me.pc = "restore"
        /\ CanRestore(me.prog)
        /\ proc' = [proc EXCEPT
                ![self].debug = me.cargs.debug,
                ![self].command = stored_command.command,
                ![self].stored_dir = stored_command.output_dir,
                ![self].recorded =
                    created[AbsPath(stored_command.output_dir)],
                ![self].session_dir = stored_command.output_dir,
                ![self].cargs = RestoredArgs(me.prog, stored_command),
                ![self].pc = "api"]
        /\ sessLog' = LogMessage(sessLog, stored_command.output_dir,
                                 me.run, "resume")
        /\ dirLog' = [dirLog EXCEPT ![me.prog] =
                          record_dir(@, me.run, NOW(me.run))]
        /\ UNCHANGED <<cmdLog, newDirsLog, nruns, issued, created, userLog,
                       clusterDatasets>>

\* main_dispatcher, if command_args.resume: restores the stored command
Restore(self) ==
    LET me == proc[self]
        stored_command == StoredCommand(me.prog)
    IN  /\ me.pc = "restore"
        /\ IF ~CanRestore(me.prog)
           THEN /\ proc' = [proc EXCEPT ![self].pc = "failed",
                                        ![self].exit = "error"]
                /\ UNCHANGED sessLog
           ELSE /\ proc' = [proc EXCEPT
                     ![self].debug = me.cargs.debug,
                     ![self].command = stored_command.command,
                     ![self].stored_dir = stored_command.output_dir,
                     ![self].recorded =
                         created[AbsPath(stored_command.output_dir)],
                     ![self].session_dir = stored_command.output_dir,
                     ![self].cargs = RestoredArgs(me.prog, stored_command),
                     ![self].pc = "api"]
                /\ sessLog' = LogMessage(sessLog, stored_command.output_dir,
                                         me.run, "resume")
        /\ UNCHANGED <<cmdLog, dirLog, newDirsLog, nruns, issued, created,
                       userLog, clusterDatasets>>

\* the non-resume branch: output_dir and predictions of a fresh run
FreshArgs(prog, run, command_args) ==
    LET a1 == IF command_args.output_dir = NoDir
              THEN [command_args EXCEPT !.output_dir = NOW(run)]
              ELSE command_args
        a2 == IF a1.predictions = NoPath
              THEN [a1 EXCEPT !.predictions =
                        PathJoin(a1.output_dir, DefaultOutput(prog, a1))]
              ELSE a1
    IN  IF DirName(a2.predictions) = EmptyDir
        THEN [a2 EXCEPT !.predictions =
                  PathJoin(a2.output_dir, a2.predictions.base)]
        ELSE a2

\* main_dispatcher, else branch up to the first session log line
Output(self) ==
    LET me == proc[self]
        command_args == FreshArgs(me.prog, me.run, me.cargs)
        directory == CheckDir(command_args.predictions)
    IN  /\ me.pc = "output"
        /\ proc' = [proc EXCEPT ![self].cargs = command_args,
                                ![self].directory = directory,
                                ![self].session_dir = directory,
                                ![self].pc = "defaults"]
        /\ sessLog' = LogMessage(sessLog, directory, me.run, "command")
        /\ UNCHANGED <<cmdLog, dirLog, newDirsLog, nruns, issued, created,
                       userLog, clusterDatasets>>

\* main_dispatcher: the copy of the defaults file; an IOError is passed over
Defaults(self) ==
    /\ proc[self].pc = "defaults"
    /\ proc' = [proc EXCEPT ![self].pc = "dirs_log"]
    /\ UNCHANGED <<cmdLog, dirLog, newDirsLog, sessLog, nruns, issued,
                   created, userLog, clusterDatasets>>

DirsLog(self) ==
    LET me == proc[self]
    IN  /\ me.pc = "dirs_log"
        /\ dirLog' = [dirLog EXCEPT ![me.prog] =
                          record_dir(@, me.run, me.directory)]
        /\ proc' = [proc EXCEPT ![self].pc = "api"]
        /\ UNCHANGED <<cmdLog, newDirsLog, sessLog, nruns, issued, created,
                       userLog, clusterDatasets>>

\* the api step without the re-application of --debug
ApplyDebug_dropped(resume, debug, command_args) == command_args

\* if resume and debug: command_args.debug = True
ApplyDebug(resume, debug, command_args) ==
    IF resume /\ debug THEN [command_args EXCEPT !.debug = TRUE]
    ELSE command_args

Api(self) ==
    LET me == proc[self]
    IN  /\ me.pc = "api"
        /\ proc' = [proc EXCEPT
                        ![self].cargs = ApplyDebug(me.resume, me.debug, @),
                        ![self].pc = "dispatch"]
        /\ UNCHANGED <<cmdLog, dirLog, newDirsLog, sessLog, nruns, issued,
                       created, userLog, clusterDatasets>>

\* main: has_train(args) or has_test(args) or args.votes_dirs
\* cluster: has_train(args) or has_test(args)
\*          or args.cluster_datasets is not None
HasWork(prog, command_args) ==
    \/ command_args.training_set
    \/ command_args.test_set
    \/ command_args.test_datasets
    \/ prog = "main" /\ command_args.votes_dirs
    \/ prog = "cluster" /\ command_args.cluster_datasets /= "none"

\* main_dispatcher: compute_output is called when there is data to work on
Dispatch(self) ==
    LET me == proc[self]
    IN  /\ me.pc = "dispatch"
        /\ proc' = [proc EXCEPT ![self].pc = IF HasWork(me.prog, me.cargs)
                                             THEN "co_validate"
                                             ELSE "separator"]
        /\ UNCHANGED <<cmdLog, dirLog, newDirsLog, sessLog, nruns, issued,
                       created, userLog, clusterDatasets>>

\* main_dispatcher returning without the last line of the session log
Separator_not_logged(self) ==
    LET me == proc[self]
    IN  /\ me.pc = "separator"
        /\ proc' = [proc EXCEPT ![self].pc = "done", ![self].exit = "ok"]
        /\ UNCHANGED <<cmdLog, dirLog, newDirsLog, sessLog, nruns, issued,
                       created, userLog, clusterDatasets>>

\* u.log_message("_" * 80 + "\n", log_file=session_file)
Separator(self) ==
    LET me == proc[self]
    IN  /\ me.pc = "separator"
        /\ sessLog' = LogMessage(sessLog, me.session_dir, me.run, "separator")
        /\ proc' = [proc EXCEPT ![self].pc = "done", ![self].exit = "ok"]
        /\ UNCHANGED <<cmdLog, dirLog, newDirsLog, nruns, issued, created,
                       userLog, clusterDatasets>>

(***************************************************************************)
(* compute_output.                                                         *)
(***************************************************************************)
\* the main checks without the one of the description
MainValidation_no_description(args) ==
    IF args.max_categories > 0 /\ ~args.objective_field
    THEN "objective"
    ELSE IF args.new_fields /\ ~args.dataset
    THEN "dataset"
    ELSE "ok"

\* the main checks without the one of the objective field
MainValidation_no_objective(args) ==
    IF ~args.description_
       /\ (args.black_box \/ args.white_box \/ args.public_dataset)
    THEN "description"
    ELSE IF args.new_fields /\ ~args.dataset
    THEN "dataset"
    ELSE "ok"

\* the cluster checks without the one of the description
ClusterValidation_no_description(args0) ==
    IF args0.new_fields /\ ~args0.dataset THEN "dataset" ELSE "ok"

\* the cluster checks without the one of the dataset for the new fields
ClusterValidation_no_dataset(args0) ==
    LET args == [args0 EXCEPT !.public_cluster = FALSE]
    IN  IF ~args.description_ /\ (args.public_cluster \/ args.public_dataset)
        THEN "description"
        ELSE "ok"

\* compute_output of the main dispatcher: the compulsory-flag checks, in
\* the order of the code; "ok" when none of them calls sys.exit
MainValidation(args) ==
    IF ~args.description_
       /\ (args.black_box \/ args.white_box \/ args.public_dataset)
    THEN "description"
    ELSE IF args.max_categories > 0 /\ ~args.objective_field
    THEN "objective"
    ELSE IF args.new_fields /\ ~args.dataset
    THEN "dataset"
    ELSE "ok"

\* compute_output of the cluster dispatcher: args.public_cluster = False
\* ("clusters cannot be published yet"), then the compulsory-flag checks
ClusterValidation(args0) ==
    LET args == [args0 EXCEPT !.public_cluster = FALSE]
    IN  IF ~args.description_ /\ (args.public_cluster \/ args.public_dataset)
        THEN "description"
        ELSE IF args.new_fields /\ ~args.dataset
        THEN "dataset"
        ELSE "ok"

Validation(prog, args) ==
    IF prog = "cluster" THEN ClusterValidation(args) ELSE MainValidation(args)

\* the compulsory-flag checks made after the source was asked for
CoValidate_after_source(self) ==
    LET me == proc[self]
    IN  /\ me.pc = "co_validate"
        /\ proc' = IF Validation(me.prog, me.cargs) = "ok"
                   THEN [proc EXCEPT ![self].pc = "co_paths"]
                   ELSE [proc EXCEPT ![self].pc = "failed",
                                     ![self].exit = "error",
                                     ![self].stages = Append(@, "source"),
                                     ![self].calls = @ + 1,
                                     ![self].fault =
                                         Validation(me.prog, me.cargs)]
        /\ UNCHANGED <<cmdLog, dirLog, newDirsLog, sessLog, nruns, issued,
                       created, userLog, clusterDatasets>>

\* sys.exit(message) in a compulsory-flag check, or on to the stages
CoValidate(self) ==
    LET me == proc[self]
    IN  /\ me.pc = "co_validate"
        /\ proc' = IF Validation(me.prog, me.cargs) = "ok"
                   THEN [proc EXCEPT ![self].pc = "co_paths"]
                   ELSE [proc EXCEPT ![self].pc = "failed",
                                     ![self].exit = "error",
                                     ![self].fault =
                                         Validation(me.prog, me.cargs)]
        /\ UNCHANGED <<cmdLog, dirLog, newDirsLog, sessLog, nruns, issued,
                       created, userLog, clusterDatasets>>

\* session_file = "%s%s%s" % (path, os.sep, SESSIONS_LOG): under an empty
\* path this is a file of the root directory
SessionFileDir(path) == IF path = EmptyDir THEN RootDir ELSE AbsPath(path)

\* if args.log_file: log = args.log_file; clear_log_files([log]): the
\* list of files handed to clear_log_files
UserLogFiles(command_args) ==
    IF command_args.log_file THEN {"log"} ELSE {}

\* path = u.check_dir(output); session_file = ...; the user's log file
CoPaths(self) ==
    LET me == proc[self]
        path == CheckDir(me.cargs.predictions)
    IN  /\ me.pc = "co_paths"
        /\ proc' = [proc EXCEPT ![self].path = path,
                                ![self].co_session_dir = SessionFileDir(path),
                                ![self].pc = "co_source"]
        /\ userLog' = clear_log_files(UserLogFiles(me.cargs),
                                      "log", userLog)
        /\ UNCHANGED <<cmdLog, dirLog, newDirsLog, sessLog, nruns, issued,
                       created, clusterDatasets>>

\* a stage of the pipeline: the collaborator is called and, with training
\* data to work on, asks the remote API for the stage's resource
Stage(me, name, next) ==
    [me EXCEPT !.stages = Append(@, name),
               !.calls = IF me.cargs.training_set THEN @ + 1 ELSE @,
               !.creations = IF me.cargs.training_set
                             THEN @ \cup {name} ELSE @,
               !.pc = next]

\* the collaborator on a resumed run that finds the stage's resource
\* recorded in the directory it is given (path, session_file): the resource
\* is retrieved, no creation call is made
IsCreated(me, name) == me.resume /\ name \in created[me.co_session_dir]

Retrieved(me, name, next) ==
    [me EXCEPT !.stages = Append(@, name), !.pc = next]

\* a processing stage called with path, session_file and resume: it
\* creates the resource and records its id in the directory, unless the
\* resumed run finds it recorded there
Processing(self, name, next) ==
    LET me == proc[self]
    IN  /\ proc' = [proc EXCEPT ![self] =
                        IF IsCreated(me, name)
                        THEN Retrieved(me, name, next)
                        ELSE Stage(me, name, next)]
        /\ created' = IF me.cargs.training_set /\ ~IsCreated(me, name)
                      THEN [created EXCEPT ![me.co_session_dir] =
                                @ \cup {name}]
                      ELSE created
        /\ userLog' = IF /\ me.cargs.log_file
                         /\ me.cargs.training_set
                         /\ ~IsCreated(me, name)
                      THEN Append(userLog, [run |-> me.run])
                      ELSE userLog
        /\ UNCHANGED <<cmdLog, dirLog, newDirsLog, sessLog, nruns, issued,
                       clusterDatasets>>

\* the source stage followed by the model stage, the dataset stage left out
CoSource_skipping_dataset(self) ==
    /\ proc[self].pc = "co_source"
    /\ Processing(self, "source", "co_model")

\* ps.source_processing(...) / pms.get_source_info(...)
CoSource(self) ==
    /\ proc[self].pc = "co_source"
    /\ Processing(self, "source", "co_dataset")

\* main: the block that follows the dataset: the split, the check of the
\* categories or the models
AfterSplit(me) ==
    IF me.prog = "main" /\ me.cargs.max_categories > 0
    THEN "co_categories" ELSE "co_model"

AfterDataset(me) ==
    IF me.prog = "main" /\ me.cargs.test_split > 0
    THEN "co_split" ELSE AfterSplit(me)

\* pd.dataset_processing(...) / pms.get_dataset_info(...)
CoDataset(self) ==
    /\ proc[self].pc = "co_dataset"
    /\ Processing(self, "dataset", AfterDataset(proc[self]))

\* if args.test_split > 0: dataset, test_dataset, resume =
\* pd.split_processing(...): the two parts are asked for
CoSplit(self) ==
    LET me == proc[self]
    IN  /\ me.pc = "co_split"
        /\ proc' = [proc EXCEPT ![self] =
                        [me EXCEPT !.stages = Append(@, "split"),
                                   !.calls = @ + 2,
                                   !.dataset = "training_part",
                                   !.test_dataset = "test_part",
                                   !.pc = AfterSplit(me)]]
        /\ UNCHANGED <<cmdLog, dirLog, newDirsLog, sessLog, nruns, issued,
                       created, userLog, clusterDatasets>>

\* sys.exit(message) of a block of compute_output
StageExit(me, fault) ==
    [me EXCEPT !.pc = "failed", !.exit = "error", !.fault = fault]

\* if args.max_categories > 0 and len(datasets) == 1: the objective field
\* is categorical (pd.check_max_categories) and the run goes on, or it is
\* not and the run ends with sys.exit
CoCategories(self) ==
    LET me == proc[self]
    IN  /\ me.pc = "co_categories"
        /\ \E categorical \in BOOLEAN :
               proc' = [proc EXCEPT ![self] =
                           IF categorical
                           THEN [me EXCEPT !.stages = Append(@, "categories"),
                                           !.pc = "co_model"]
                           ELSE StageExit(me, "not_categorical")]
        /\ UNCHANGED <<cmdLog, dirLog, newDirsLog, sessLog, nruns, issued,
                       created, userLog, clusterDatasets>>

\* pm.models_processing(...) / pc.clusters_processing(...)
CoModel(self) ==
    /\ proc[self].pc = "co_model"
    /\ Processing(self, "model", "co_test")

\* a block of compute_output that runs under a condition: the stage is
\* entered (with a remote call or without) or the block is skipped
Block(me, enabled, name, call, next) ==
    IF enabled
    THEN [me EXCEPT !.stages = Append(@, name),
                    !.calls = IF call THEN @ + 1 ELSE @,
                    !.pc = next]
    ELSE [me EXCEPT !.pc = next]

\* models (clusters) is not empty: they were built from the training data
\* or the cluster was given with --cluster
HasModels(command_args) == command_args.training_set \/ command_args.cluster

\* ensemble_ids of pm.models_processing: an ensemble is built when more
\* than one model is asked for
EnsembleIds(command_args) ==
    IF HasModels(command_args) /\ command_args.number_of_models > 1
    THEN {"ensemble"} ELSE {}

\* the block that follows the prediction block
AfterPredict(me) ==
    IF me.prog = "main"
    THEN IF me.cargs.votes_dirs THEN "co_votes" ELSE "co_evaluate"
    ELSE IF HasModels(me.cargs) /\ me.cargs.cluster_datasets /= "none"
    THEN "co_cluster_datasets" ELSE "co_finish"

\* the condition of the prediction block without "not args.evaluate"
Predicts_ignoring_evaluate(prog, command_args) ==
    HasModels(command_args) /\ command_args.test_set

\* main: if models and has_test(args) and not args.evaluate
\* cluster: if clusters and has_test(args)
Predicts(prog, command_args) ==
    /\ HasModels(command_args)
    /\ command_args.test_set
    /\ prog = "main" => ~command_args.evaluate

\* the remote branch of the prediction block: the test source and the test
\* dataset are created before the batch prediction (centroid) is asked for
CoTest(self) ==
    LET me == proc[self]
    IN  /\ me.pc = "co_test"
        /\ proc' = [proc EXCEPT ![self] =
                        Block(me, Predicts(me.prog, me.cargs)
                                  /\ me.cargs.remote,
                              "test", TRUE, "co_predict")]
        /\ UNCHANGED <<cmdLog, dirLog, newDirsLog, sessLog, nruns, issued,
                       created, userLog, clusterDatasets>>

\* remote_predict(...) / predict(...); remote_centroid / centroid
CoPredict(self) ==
    LET me == proc[self]
    IN  /\ me.pc = "co_predict"
        /\ proc' = [proc EXCEPT ![self] =
                        Block(me, Predicts(me.prog, me.cargs), "predict",
                              me.cargs.remote, AfterPredict(me))]
        /\ UNCHANGED <<cmdLog, dirLog, newDirsLog, sessLog, nruns, issued,
                       created, userLog, clusterDatasets>>

\* the votes block going on to the evaluation when the model cannot be
\* fetched
CoVotes_going_on(self) ==
    LET me == proc[self]
    IN  /\ me.pc = "co_votes"
        /\ \E fetched \in BOOLEAN :
               proc' = [proc EXCEPT ![self] =
                           IF fetched
                           THEN [me EXCEPT !.stages = Append(@, "votes"),
                                           !.calls = @ + 1,
                                           !.pc = "co_evaluate"]
                           ELSE [me EXCEPT !.fault = "model",
                                           !.calls = @ + 1,
                                           !.pc = "co_evaluate"]]
        /\ UNCHANGED <<cmdLog, dirLog, newDirsLog, sessLog, nruns, issued,
                       created, userLog, clusterDatasets>>

\* if args.votes_files_: model = u.check_resource(model_id, api.get_model)
\* returns the model and the votes are combined, or raises ValueError and
\* the run ends with sys.exit
CoVotes(self) ==
    LET me == proc[self]
    IN  /\ me.pc = "co_votes"
        /\ \E fetched \in BOOLEAN :
               proc' = [proc EXCEPT ![self] =
                           IF fetched
                           THEN [me EXCEPT !.stages = Append(@, "votes"),
                                           !.calls = @ + 1,
                                           !.pc = "co_evaluate"]
                           ELSE [StageExit(me, "model") EXCEPT
                                     !.calls = @ + 1]]
        /\ UNCHANGED <<cmdLog, dirLog, newDirsLog, sessLog, nruns, issued,
                       created, userLog, clusterDatasets>>

\* the evaluation without "if args.test_split > 0: dataset = test_dataset"
Evaluation_on_dataset(me) ==
    LET test_dataset_ids ==
            IF me.cargs.test_datasets THEN {"test_datasets"}
            ELSE IF me.cargs.dataset_off THEN {me.dataset}
            ELSE {}
    IN  IF test_dataset_ids /= {}
        THEN [what |-> "models", on |-> test_dataset_ids]
        ELSE [what |-> IF EnsembleIds(me.cargs) /= {}
                       THEN "ensembles" ELSE "models",
              on |-> {me.dataset}]

\* the arguments of evaluate: under --dataset-off the datasets list stands
\* for the test datasets; given test datasets the models are evaluated on
\* them; else the ensembles (or the models) on the test part of the split
\* or on the dataset
Evaluation(me) ==
    LET test_dataset_ids ==
            IF me.cargs.test_datasets THEN {"test_datasets"}
            ELSE IF me.cargs.dataset_off THEN {me.dataset}
            ELSE {}
    IN  IF test_dataset_ids /= {}
        THEN [what |-> "models", on |-> test_dataset_ids]
        ELSE [what |-> IF EnsembleIds(me.cargs) /= {}
                       THEN "ensembles" ELSE "models",
              on |-> {IF me.cargs.test_split > 0 THEN me.test_dataset
                      ELSE me.dataset}]

\* main: if args.evaluate: ... evaluate(...)
CoEvaluate(self) ==
    LET me == proc[self]
    IN  /\ me.pc = "co_evaluate"
        /\ proc' = [proc EXCEPT ![self] =
                        [Block(me, me.cargs.evaluate, "evaluate", TRUE,
                               "co_cross_validate")
                             EXCEPT !.evaluated =
                                        IF me.cargs.evaluate
                                        THEN Evaluation(me) ELSE @]]
        /\ UNCHANGED <<cmdLog, dirLog, newDirsLog, sessLog, nruns, issued,
                       created, userLog, clusterDatasets>>

\* main: if args.cross_validation_rate > 0: ... cross_validate(...)
CoCrossValidate(self) ==
    LET me == proc[self]
    IN  /\ me.pc = "co_cross_validate"
        /\ proc' = [proc EXCEPT ![self] =
                        Block(me, me.cargs.cross_validation_rate > 0,
                              "cross_validate", TRUE, "co_finish")]
        /\ UNCHANGED <<cmdLog, dirLog, newDirsLog, sessLog, nruns, issued,
                       created, userLog, clusterDatasets>>

\* a dataset asked for every centroid named, recorded or not
NewCentroidIds_unfiltered(value, datasets) ==
    IF value = "" THEN Centroids ELSE ClusterNames(value)

\* centroid_ids: every centroid under the empty string, else the centroids
\* named for which datasets[centroid] == ''
NewCentroidIds(value, datasets) ==
    IF value = "" THEN Centroids
    ELSE {c \in ClusterNames(value) : c \notin datasets}

\* cluster: if cluster and args.cluster_datasets is not None: for each of
\* centroid_ids r.create_dataset(cluster, {'centroid': centroid_id}, ...);
\* the remote cluster records the dataset of the centroid
CoClusterDatasets(self) ==
    LET me == proc[self]
        centroid_ids == NewCentroidIds(me.cargs.cluster_datasets,
                                       clusterDatasets)
    IN  /\ me.pc = "co_cluster_datasets"
        /\ proc' = [proc EXCEPT ![self] =
                        [me EXCEPT !.stages = Append(@, "cluster_datasets"),
                                   !.calls = @ + Cardinality(centroid_ids),
                                   !.centroid_ids = centroid_ids,
                                   !.datasets = clusterDatasets,
                                   !.pc = "co_finish"]]
        /\ clusterDatasets' = clusterDatasets \cup centroid_ids
        /\ UNCHANGED <<cmdLog, dirLog, newDirsLog, sessLog, nruns, issued,
                       created, userLog>>

\* u.print_generated_files(path, log_file=session_file, ...); the reports;
\* return
CoFinish(self) ==
    LET me == proc[self]
    IN  /\ me.pc = "co_finish"
        /\ sessLog' = [sessLog EXCEPT ![me.co_session_dir] =
                           Append(@, [run |-> me.run, kind |-> "generated"])]
        /\ proc' = [proc EXCEPT ![self] =
                        Block(me, TRUE, "report", FALSE, "separator")]
        /\ UNCHANGED <<cmdLog, dirLog, newDirsLog, nruns, issued, created,
                       userLog, clusterDatasets>>

\* the process is terminated (SIGINT) wherever it stands; killed_at is the
\* statement it did not get to execute
Kill(self) ==
    /\ proc[self].pc \notin Ended
    /\ proc' = [proc EXCEPT ![self].pc = "killed", ![self].exit = "killed",
                            ![self].killed_at = proc[self].pc]
    /\ UNCHANGED <<cmdLog, dirLog, newDirsLog, sessLog, nruns, issued,
                   created, userLog, clusterDatasets>>

(***************************************************************************)
(* Specifications.                                                         *)
(***************************************************************************)
\* one statement of the invocation self.  cluster_dispatcher is, statement
\* for statement, main_dispatcher over its own COMMAND_LOG and DIRS_LOG and
\* with DEFAULT_OUTPUT as the default output; the two differ in
\* compute_output (Validation).  The blocks of compute_output entered only
\* under --test-split, --max-categories, --combine-votes or
\* --cluster-datasets (CoSplit, CoCategories, CoVotes, CoClusterDatasets)
\* are statements of the specifications whose command lines hold these
\* flags.
Step(self) ==
    \/ ClearLogs(self)
    \/ CommandHandling(self)
    \/ Parse(self)
    \/ Restore(self)
    \/ Output(self)
    \/ Defaults(self)
    \/ DirsLog(self)
    \/ Api(self)
    \/ Dispatch(self)
    \/ CoValidate(self)
    \/ CoPaths(self)
    \/ CoSource(self)
    \/ CoDataset(self)
    \/ CoModel(self)
    \/ CoTest(self)
    \/ CoPredict(self)
    \/ CoEvaluate(self)
    \/ CoCrossValidate(self)
    \/ CoFinish(self)
    \/ Separator(self)
    \/ Kill(self)

\* invocations of the main command, one after the other
StartMain == \E args \in MainArgv : Start(1, "main", args)

Next == StartMain \/ Step(1)

Spec == Init /\ [][Next]_vars

(***************************************************************************)
(* Properties of the resumable session, invocations run one at a time.     *)
(***************************************************************************)
\* the invocation of the sequential specifications
Me == proc[1]

\* lines of a log written by a run other than `run`
ForeignLines(log, run) == {i \in 1..Len(log) : log[i].run /= run}

\* C1: after any sequence of invocations (resumed or not, with --clear-logs
\* or not, aborted part-way or not) the command log and the directory-stack
\* log have the same number of lines and their Nth lines were written by the
\* same run.
C1_LogsCorrelated ==
    Me.pc \in Ended =>
        /\ Len(cmdLog["main"]) = Len(dirLog["main"])
        /\ \A n \in 1..Len(cmdLog["main"]) :
               n <= Len(dirLog["main"])
                   => cmdLog["main"][n].run = dirLog["main"][n].run

\* C2: the command log holds exactly one line per non-resumed invocation
\* made since the last --clear-logs invocation (a --resume invocation adds
\* none), and right after the truncation of a --clear-logs invocation it
\* holds no line at all.
C2_CommandLogCount ==
    /\ Len(cmdLog["main"]) = issued["main"]
    /\ \A i \in 1..Len(cmdLog["main"]) :
           /\ ~HasFlag(StoredArgs(cmdLog["main"][i].line), "--resume")
           /\ \A j \in 1..Len(cmdLog["main"]) :
                  cmdLog["main"][i].run = cmdLog["main"][j].run => i = j
    /\ (Me.pc = "command_handling" /\ HasFlag(Me.args, "--clear-logs"))
           => Len(cmdLog["main"]) = 0

\* C2 witness: a resumed invocation has ended after two logged ones and the
\* command log still holds two lines
C2_Witness ==
    /\ Me.pc = "done"
    /\ Me.resume
    /\ Len(cmdLog["main"]) = 2
    /\ issued["main"] = 2

\* a --clear-logs invocation that is past the truncation
Cleared ==
    /\ HasFlag(Me.args, "--clear-logs")
    /\ Me.pc /= "clear_logs"
    /\ Me.killed_at /= "clear_logs"

\* C3 as stated: a --clear-logs invocation empties the command log, the
\* directory-stack log and the session log before it reads or appends any:
\* whatever these files hold afterwards was written by this invocation.
C3_ClearsSessionLog ==
    Cleared =>
        /\ ForeignLines(cmdLog[Me.prog], Me.run) = {}
        /\ ForeignLines(dirLog[Me.prog], Me.run) = {}
        /\ Me.session_dir /= NoDir
               => ForeignLines(sessLog[AbsPath(Me.session_dir)], Me.run) = {}

\* C3 amended: a --clear-logs invocation empties the command log, the
\* directory-stack log and the new-directories log (not the session log)
\* before it reads or appends any of them.
C3_ClearsLogFiles ==
    /\ Cleared =>
           /\ ForeignLines(cmdLog[Me.prog], Me.run) = {}
           /\ ForeignLines(dirLog[Me.prog], Me.run) = {}
           /\ newDirsLog = <<>>
    /\ (Cleared /\ Me.pc = "command_handling") =>
           /\ cmdLog[Me.prog] = <<>>
           /\ dirLog[Me.prog] = <<>>

\* C3 witness: the truncation has just happened in an invocation that
\* follows a completed one (whose session log is still there)
C3_Witness ==
    /\ Cleared
    /\ Me.pc = "command_handling"
    /\ Me.run > 1
    /\ \E d \in SessDirs :
           \E i \in 1..Len(sessLog[d]) : sessLog[d][i].kind = "separator"

\* C6: two consecutive --resume invocations resolve to the same output
\* directory.
C6_ResumeSameDir ==
    (Me.stored_dir /= NoDir /\ Me.prev_dir /= NoDir)
        => Me.stored_dir = Me.prev_dir

\* C6 witness: the second of two resumes has restored its directory
C6_Witness ==
    /\ Me.resume
    /\ Me.pc = "done"
    /\ Me.prev_dir /= NoDir
    /\ Me.stored_dir = Me.prev_dir

\* C7: a --resume invocation that finds the command log empty (also when
\* the same invocation emptied it with --clear-logs) fails at once: it
\* never gets beyond the restoring of the stored command, enters no
\* pipeline stage and makes no remote call.
C7_ResumeWithoutHistoryFails ==
    (HasFlag(Me.args, "--resume")
     /\ (cmdLog[Me.prog] = <<>> \/ Cleared))
        => /\ Me.pc \in {"clear_logs", "command_handling", "parse",
                         "restore", "failed", "killed"}
           /\ Me.pc = "failed" => Me.exit = "error"
           /\ Me.stages = <<>>
           /\ Me.calls = 0

\* C7 witness: --clear-logs --resume has failed after an earlier run had
\* left its history
C7_Witness ==
    /\ HasFlag(Me.args, "--resume")
    /\ HasFlag(Me.args, "--clear-logs")
    /\ Me.pc = "failed"
    /\ Me.exit = "error"
    /\ \E d \in SessDirs :
           \E i \in 1..Len(sessLog[d]) : sessLog[d][i].kind = "separator"

(***************************************************************************)
(* A run followed by resumes of it.                                        *)
(***************************************************************************)
Opt(b, tokens) == IF b THEN tokens ELSE <<>>

PredictionsOpt(kind) ==
    IF kind = "bare" THEN <<"--predictions", "p.csv">>
    ELSE IF kind = "dir" THEN <<"--predictions", "pdir/p.csv">>
    ELSE <<>>

\* the command lines of the run that is resumed: over training data with
\* every combination of the output options, one that compute_output
\* refuses, one with no data to work on
FirstArgv ==
    {<<"--train">> \o Opt(d, <<"--debug">>) \o Opt(e, <<"--evaluate">>)
         \o Opt(o, <<"--output-dir", "out">>) \o PredictionsOpt(k) :
        d \in BOOLEAN, e \in BOOLEAN, o \in BOOLEAN,
        k \in {"none", "bare", "dir"}}
        \cup {<<"--train", "--black-box">>, <<"--output-dir", "out">>}

ResumeArgv == {<<"--resume">>, <<"--resume", "--debug">>}

StartFirst == nruns = 0 /\ \E args \in FirstArgv : Start(1, "main", args)

StartResume == nruns > 0 /\ \E args \in ResumeArgv : Start(1, "main", args)

NextResume == StartFirst \/ StartResume \/ Step(1)

SpecResume == Init /\ [][NextResume]_vars

\* a resumed invocation that has restored the stored command and has gone
\* through the creation of the api instance
Resumed ==
    /\ Me.resume
    /\ Me.stored_dir /= NoDir
    /\ Me.pc /= "api"
    /\ Me.killed_at /= "api"

\* the arguments recorded in the last line of the command log
RecordedArgs == ParseAndCheck(StoredArgs(Last(cmdLog["main"]).line))

\* the flags of a Namespace, the output paths and --debug left aside
Flags(command_args) ==
    [command_args EXCEPT !.debug = FALSE, !.predictions = NoPath,
                         !.output_dir = NoDir]

\* C4: a resume issued after a non-resumed run works in the output
\* directory that run recorded, with the recorded arguments (--debug apart).
C4_ResumeFidelity ==
    Resumed =>
        /\ AbsPath(CheckDir(Me.cargs.predictions))
               = Last(dirLog["main"]).dir
        /\ Flags(Me.cargs) = Flags(RecordedArgs)

\* C5 as stated: a resumed run has debug enabled only if --debug is given on
\* the resume invocation itself.
C5_DebugNotPersistent ==
    Resumed => (Me.cargs.debug <=> HasFlag(Me.args, "--debug"))

\* C5 amended: a resumed run has debug enabled exactly when --debug is given
\* on the resume invocation or was part of the recorded command.
C5_DebugKept ==
    Resumed =>
        (Me.cargs.debug <=>
            (HasFlag(Me.args, "--debug") \/ RecordedArgs.debug))

\* C5 witness: --resume --debug of a command recorded without --debug has
\* run to its end with debug on
C5_Witness ==
    /\ Resumed
    /\ Me.pc = "done"
    /\ HasFlag(Me.args, "--debug")
    /\ ~RecordedArgs.debug
    /\ Me.cargs.debug

(***************************************************************************)
(* One fresh invocation of either command, over all combinations of the    *)
(* flags that compute_output checks.                                       *)
(***************************************************************************)
MainComputeArgv ==
    {Opt(t, <<"--train">>) \o Opt(d, <<"--description">>)
         \o Opt(b, <<"--black-box">>) \o Opt(w, <<"--white-box">>)
         \o Opt(p, <<"--public-dataset">>) \o Opt(m, <<"--max-categories">>)
         \o Opt(o, <<"--objective">>) \o Opt(n, <<"--new-fields">>)
         \o Opt(s, <<"--dataset">>) :
        t \in BOOLEAN, d \in BOOLEAN, b \in BOOLEAN, w \in BOOLEAN,
        p \in BOOLEAN, m \in BOOLEAN, o \in BOOLEAN, n \in BOOLEAN,
        s \in BOOLEAN}

ClusterComputeArgv ==
    {Opt(t, <<"--train">>) \o Opt(d, <<"--description">>)
         \o Opt(c, <<"--public-cluster">>) \o Opt(p, <<"--public-dataset">>)
         \o Opt(n, <<"--new-fields">>) \o Opt(s, <<"--dataset">>) :
        t \in BOOLEAN, d \in BOOLEAN, c \in BOOLEAN, p \in BOOLEAN,
        n \in BOOLEAN, s \in BOOLEAN}

StartCompute ==
    /\ nruns = 0
    /\ \/ \E args \in MainComputeArgv : Start(1, "main", args)
       \/ \E args \in ClusterComputeArgv : Start(1, "cluster", args)

NextCompute ==
    \/ StartCompute
    \/ ClearLogs(1)
    \/ CommandHandling(1)
    \/ Parse(1)
    \/ Output(1)
    \/ Defaults(1)
    \/ DirsLog(1)
    \/ Api(1)
    \/ Dispatch(1)
    \/ CoValidate(1)
    \/ CoPaths(1)
    \/ CoSource(1)
    \/ CoDataset(1)
    \/ CoCategories(1)
    \/ CoModel(1)
    \/ CoTest(1)
    \/ CoPredict(1)
    \/ CoEvaluate(1)
    \/ CoCrossValidate(1)
    \/ CoFinish(1)
    \/ Separator(1)
    \/ Kill(1)

SpecCompute == Init /\ [][NextCompute]_vars

\* the invocation has data to work on: compute_output is called
WithData == HasFlag(Me.args, "--train")

\* the invocation never got into the pipeline: it is still in the
\* dispatcher or in the checks of compute_output, or it has exited with an
\* error (or was killed there); no stage was entered, no remote call made
StoppedBeforePipeline ==
    /\ Me.pc \in {"clear_logs", "command_handling", "parse", "output",
                  "defaults", "dirs_log", "api", "dispatch", "co_validate",
                  "failed", "killed"}
    /\ Me.pc = "failed" => Me.exit = "error"
    /\ Me.pc = "killed" => Me.killed_at \notin
           {"co_paths", "co_source", "co_dataset", "co_model", "co_test",
            "co_predict", "co_evaluate", "co_cross_validate", "co_finish",
            "separator"}
    /\ Me.stages = <<>>
    /\ Me.calls = 0

\* C8 as stated: the cluster subcommand with --public-cluster and no
\* --description exits with an error and makes no remote call.
C8_PublicClusterFatal ==
    (Me.prog = "cluster" /\ WithData
     /\ HasFlag(Me.args, "--public-cluster")
     /\ ~HasFlag(Me.args, "--description"))
        => StoppedBeforePipeline

\* C8 amended: the cluster subcommand with --public-dataset and no
\* --description exits with an error and makes no remote call, whereas
\* --public-cluster (which compute_output forces to False) is not by itself
\* a reason to exit.
C8_PublicDatasetFatal ==
    /\ (Me.prog = "cluster" /\ WithData
        /\ HasFlag(Me.args, "--public-dataset")
        /\ ~HasFlag(Me.args, "--description"))
           => StoppedBeforePipeline
    /\ (Me.prog = "cluster"
        /\ HasFlag(Me.args, "--public-cluster")
        /\ ~HasFlag(Me.args, "--public-dataset")
        /\ ~(HasFlag(Me.args, "--new-fields")
             /\ ~HasFlag(Me.args, "--dataset")))
           => Me.pc /= "failed"

\* C8 witness: the cluster subcommand has exited on --public-dataset
\* without --description
C8_Witness ==
    /\ Me.prog = "cluster"
    /\ WithData
    /\ HasFlag(Me.args, "--public-dataset")
    /\ ~HasFlag(Me.args, "--description")
    /\ Me.pc = "failed"
    /\ Me.exit = "error"
    /\ Me.calls = 0

\* C9: in the main compute_output a publishing flag (--black-box,
\* --white-box, --public-dataset) without a description ends the process
\* with an error before the source, dataset or model stage is entered and
\* before any remote call.
C9_PublishNeedsDescription ==
    (Me.prog = "main" /\ WithData
     /\ (HasFlag(Me.args, "--black-box") \/ HasFlag(Me.args, "--white-box")
         \/ HasFlag(Me.args, "--public-dataset"))
     /\ ~HasFlag(Me.args, "--description"))
        => StoppedBeforePipeline

\* C9 witness: the main command has exited on --white-box without
\* --description, every other check being satisfied
C9_Witness ==
    /\ Me.prog = "main"
    /\ Me.args = <<"--train", "--white-box">>
    /\ Me.pc = "failed"
    /\ Me.exit = "error"
    /\ Me.stages = <<>>

\* C10: in the main compute_output --max-categories without an objective
\* field ends the process with an error before any remote call.
C10_MaxCategoriesNeedsObjective ==
    (Me.prog = "main" /\ WithData
     /\ HasFlag(Me.args, "--max-categories")
     /\ ~HasFlag(Me.args, "--objective"))
        => StoppedBeforePipeline

\* C10 witness: the main command has exited on --max-categories without
\* --objective, every other check being satisfied
C10_Witness ==
    /\ Me.prog = "main"
    /\ Me.args = <<"--train", "--max-categories">>
    /\ Me.pc = "failed"
    /\ Me.exit = "error"
    /\ Me.calls = 0

\* C11: in the main and in the cluster compute_output alike, --new-fields
\* without a dataset id ends the process with an error before any stage
\* is entered and before any remote call.
C11_NewFieldsNeedsDataset ==
    (WithData
     /\ HasFlag(Me.args, "--new-fields")
     /\ ~HasFlag(Me.args, "--dataset"))
        => StoppedBeforePipeline

\* C11 witness: the cluster subcommand has exited on --new-fields without
\* --dataset, every other check being satisfied
C11_Witness ==
    /\ Me.prog = "cluster"
    /\ Me.args = <<"--train", "--new-fields">>
    /\ Me.pc = "failed"
    /\ Me.exit = "error"
    /\ Me.calls = 0
    /\ Me.stages = <<>>

(***************************************************************************)
(* The stages of compute_output: one invocation of either program, over    *)
(* every combination of the flags that enable the stages.                  *)
(***************************************************************************)
MainStagesArgv ==
    {Opt(t, <<"--train">>) \o Opt(x, <<"--test">>) \o Opt(r, <<"--remote">>)
         \o Opt(e, <<"--evaluate">>)
         \o Opt(c, <<"--cross-validation-rate">>) :
        t \in BOOLEAN, x \in BOOLEAN, r \in BOOLEAN, e \in BOOLEAN,
        c \in BOOLEAN}

ClusterStagesArgv ==
    {Opt(t, <<"--train">>) \o Opt(x, <<"--test">>) \o Opt(r, <<"--remote">>) :
        t \in BOOLEAN, x \in BOOLEAN, r \in BOOLEAN}

StartStages ==
    /\ nruns = 0
    /\ \/ \E args \in MainStagesArgv : Start(1, "main", args)
       \/ \E args \in ClusterStagesArgv : Start(1, "cluster", args)

NextStages ==
    \/ StartStages
    \/ ClearLogs(1)
    \/ CommandHandling(1)
    \/ Parse(1)
    \/ Output(1)
    \/ Defaults(1)
    \/ DirsLog(1)
    \/ Api(1)
    \/ Dispatch(1)
    \/ CoValidate(1)
    \/ CoPaths(1)
    \/ CoSource(1)
    \/ CoDataset(1)
    \/ CoModel(1)
    \/ CoTest(1)
    \/ CoPredict(1)
    \/ CoEvaluate(1)
    \/ CoCrossValidate(1)
    \/ CoFinish(1)
    \/ Separator(1)
    \/ Kill(1)

SpecStages == Init /\ [][NextStages]_vars

\* the stages the invocation has entered so far
Entered == {Me.stages[i] : i \in 1..Len(Me.stages)}

\* the three actions of stage 5
Stage5 == {"predict", "evaluate", "cross_validate"}

\* compute_output is past its last conditional block
PastBlocks == Me.pc \in {"co_finish", "separator", "done"}

\* C12 as stated: in a run of the main compute_output at most one of
\* prediction, evaluation and cross-validation is executed, whatever the
\* flags.
C12_AtMostOneStage5 ==
    Me.prog = "main" => Cardinality(Entered \cap Stage5) <= 1

\* C12 amended: prediction and evaluation are never both executed in a run
\* of the main compute_output, and cross-validation is executed exactly
\* when cross_validation_rate > 0, whether or not one of the other two was.
C12_PredictionXorEvaluation ==
    Me.prog = "main" =>
        /\ ~({"predict", "evaluate"} \subseteq Entered)
        /\ PastBlocks /\ WithData =>
               ("cross_validate" \in Entered
                    <=> HasFlag(Me.args, "--cross-validation-rate"))
        /\ PastBlocks /\ WithData =>
               ("evaluate" \in Entered <=> HasFlag(Me.args, "--evaluate"))

\* C12 witness: a run over training and test data with a cross-validation
\* rate has made its predictions and its cross-validation
C12_Witness ==
    /\ Me.prog = "main"
    /\ Me.pc = "done"
    /\ {"predict", "cross_validate"} \subseteq Entered
    /\ "evaluate" \notin Entered

\* the order of the stages in a run
StageOrder ==
    <<"source", "dataset", "model", "test", "predict", "evaluate",
      "cross_validate", "report">>

Rank(name) == CHOOSE i \in 1..Len(StageOrder) : StageOrder[i] = name

\* C13: within a run the stages are entered in the order source, dataset,
\* model (cluster), test-data preparation, prediction / evaluation /
\* cross-validation, report; no stage is entered twice, and a stage is
\* entered only after the stages before it that the run goes through:
\* the dataset stage after the source stage, the model stage after the
\* dataset stage, every later one after the model stage.
C13_StagesInOrder ==
    /\ \A i, j \in 1..Len(Me.stages) :
           i < j => Rank(Me.stages[i]) < Rank(Me.stages[j])
    /\ "dataset" \in Entered => "source" \in Entered
    /\ "model" \in Entered => "dataset" \in Entered
    /\ Entered \cap {"test", "predict", "evaluate", "cross_validate",
                      "report"} /= {} => "model" \in Entered
    /\ "predict" \in Entered /\ Me.cargs.remote => "test" \in Entered

\* C13 witness: a run has gone through every stage a single run can enter
C13_Witness ==
    /\ Me.pc = "done"
    /\ Me.stages = <<"source", "dataset", "model", "test", "predict",
                     "cross_validate", "report">>

(***************************************************************************)
(* Resuming the stages.                                                    *)
(***************************************************************************)
\* C14: a resumed run never asks for the creation of a resource that the
\* interrupted run had recorded in its output directory; in particular,
\* resuming a run interrupted between dataset and model creation creates
\* neither a source nor a dataset.
C14_ResumeSkipsRecorded ==
    Me.resume /\ Me.stored_dir /= NoDir =>
        Me.creations \cap Me.recorded = {}

\* C14 restricted to recorded commands whose --predictions is not a bare
\* file name
C14_ResumeSkipsRecordedInDir ==
    (Me.resume /\ Me.stored_dir /= NoDir
     /\ ~HasValue(StoredArgs(Me.command), "--predictions", "p.csv"))
        => Me.creations \cap Me.recorded = {}

(***************************************************************************)
(* The end of the session log.                                             *)
(***************************************************************************)
\* the session log of the directory the dispatcher logs to ends with the
\* line of 80 underscores written by this run
EndsWithSeparator ==
    LET log == sessLog[AbsPath(Me.session_dir)]
    IN  /\ log /= <<>>
        /\ Last(log) = [run |-> Me.run, kind |-> "separator"]

\* C15 as stated: every run that ends, by returning or by exiting with an
\* error, leaves the session log of its output directory ending with the
\* line of 80 underscores.
C15_SeparatorAtEveryEnd ==
    (Me.pc \in {"done", "failed"} /\ Me.session_dir /= NoDir)
        => EndsWithSeparator

\* C15 amended: every run that main_dispatcher returns from, resumed or
\* not and with compute_output called or not, leaves the session log of its
\* output directory ending with the line of 80 underscores; a run that
\* compute_output ends with sys.exit leaves its session log without it.
C15_SeparatorAtReturn ==
    /\ Me.pc = "done" => EndsWithSeparator
    /\ (Me.pc = "failed" /\ Me.session_dir /= NoDir) => ~EndsWithSeparator

\* C15 witness: a resumed run with no data to work on has returned and
\* the session log of the restored directory ends with its separator
C15_Witness ==
    /\ Me.resume
    /\ Me.pc = "done"
    /\ ~Me.cargs.training_set
    /\ Me.stages = <<>>
    /\ EndsWithSeparator

(***************************************************************************)
(* The directory stack.                                                    *)
(***************************************************************************)
\* the invocation is past the statement that appends to the directory stack
\* (a resumed one is past the restoration)
PastDirsLog ==
    LET before == {"idle", "clear_logs", "command_handling", "parse",
                   "restore", "output", "defaults", "dirs_log"}
    IN  /\ Me.pc \notin before
        /\ Me.pc = "killed" => Me.killed_at \notin before

\* the lines of the directory stack written by the invocation
OwnDirLines ==
    {i \in 1..Len(dirLog[Me.prog]) : dirLog[Me.prog][i].run = Me.run}

\* a non-resumed run has one line in the directory stack once it is past
\* the append and none before; the line is the last one and is the
\* absolute path of the directory of the predictions file and of the
\* session log; a resumed run has no line
OneDirLine ==
    /\ (Me.resume \/ ~PastDirsLog) => OwnDirLines = {}
    /\ (~Me.resume /\ PastDirsLog) =>
           LET entry == Last(dirLog[Me.prog])
           IN  /\ Cardinality(OwnDirLines) = 1
               /\ entry.run = Me.run
               /\ entry.dir.abs
               /\ entry.dir = AbsPath(CheckDir(Me.cargs.predictions))
               /\ entry.dir = AbsPath(Me.session_dir)
               /\ Me.co_session_dir /= NoDir
                      => Me.co_session_dir = entry.dir

\* a step changes the directory stack only by appending one line to it or,
\* in the first statement of a --clear-logs invocation, by emptying it
DirsLogStep ==
    \A g \in Progs :
        dirLog'[g] /= dirLog[g] =>
            \/ /\ Len(dirLog'[g]) = Len(dirLog[g]) + 1
               /\ SubSeq(dirLog'[g], 1, Len(dirLog[g])) = dirLog[g]
            \/ /\ HasFlag(Me.args, "--clear-logs")
               /\ Me.pc = "clear_logs"
               /\ dirLog'[g] = <<>>

\* C16: each non-resumed run appends exactly one entry to the directory
\* stack, the absolute path of the directory it writes its predictions
\* file and its session log into, and the entries already there are never
\* changed or removed except by --clear-logs.
C16_OneEntryPerRun == []OneDirLine /\ [][DirsLogStep]_vars

\* C16 witness: the second non-resumed run has returned; the directory
\* stack holds the line of the first run and, after it, its own
C16_Witness ==
    /\ Me.pc = "done"
    /\ ~Me.resume
    /\ Len(dirLog["main"]) = 2
    /\ dirLog["main"][1].run /= Me.run
    /\ dirLog["main"][2] = [run |-> Me.run, dir |-> AbsPath(Me.directory)]
    /\ sessLog[AbsPath(Me.directory)] /= <<>>

(***************************************************************************)
(* I/O errors on the log files and on the defaults file: invocations of    *)
(* the main command in a working directory whose files may not be          *)
(* writable.                                                               *)
(***************************************************************************)
\* clear_log_files: open(log_file, 'w') raises IOError for every file;
\* except IOError: pass
ClearLogsIOError(self) ==
    LET me == proc[self]
    IN  /\ me.pc = "clear_logs"
        /\ HasFlag(me.args, "--clear-logs")
        /\ proc' = [proc EXCEPT ![self].pc = "command_handling",
                                ![self].io = @ \cup {"clear_logs"}]
        /\ UNCHANGED <<cmdLog, dirLog, newDirsLog, sessLog, nruns, issued,
                       created, userLog, clusterDatasets>>

\* command_handling: open(log, "a", 0) raises IOError; the statement is in
\* no try block and the exception ends the invocation
CommandHandlingIOError(self) ==
    LET me == proc[self]
    IN  /\ me.pc = "command_handling"
        /\ ~HasFlag(me.args, "--resume")
        /\ proc' = [proc EXCEPT ![self].pc = "failed",
                                ![self].exit = "error",
                                ![self].io = @ \cup {"command_log"}]
        /\ UNCHANGED <<cmdLog, dirLog, newDirsLog, sessLog, nruns, issued,
                       created, userLog, clusterDatasets>>

\* the copy of the defaults file raises IOError; except IOError: pass
DefaultsIOError(self) ==
    /\ proc[self].pc = "defaults"
    /\ proc' = [proc EXCEPT ![self].pc = "dirs_log",
                            ![self].io = @ \cup {"defaults"}]
    /\ UNCHANGED <<cmdLog, dirLog, newDirsLog, sessLog, nruns, issued,
                   created, userLog, clusterDatasets>>

\* open(DIRS_LOG, "a", 0) raises IOError; the statement is in no try block
\* and the exception ends the invocation
DirsLogIOError(self) ==
    /\ proc[self].pc = "dirs_log"
    /\ proc' = [proc EXCEPT ![self].pc = "failed", ![self].exit = "error",
                            ![self].io = @ \cup {"dirs_log"}]
    /\ UNCHANGED <<cmdLog, dirLog, newDirsLog, sessLog, nruns, issued,
                   created, userLog, clusterDatasets>>

\* command lines that compute_output accepts
IOArgv ==
    {<<"--train">>, <<"--train", "--clear-logs">>,
     <<"--clear-logs", "--output-dir", "out">>}

StartIO == \E args \in IOArgv : Start(1, "main", args)

NextIO ==
    \/ StartIO
    \/ ClearLogs(1)
    \/ ClearLogsIOError(1)
    \/ CommandHandling(1)
    \/ CommandHandlingIOError(1)
    \/ Parse(1)
    \/ Output(1)
    \/ Defaults(1)
    \/ DefaultsIOError(1)
    \/ DirsLog(1)
    \/ DirsLogIOError(1)
    \/ Api(1)
    \/ Dispatch(1)
    \/ CoValidate(1)
    \/ CoPaths(1)
    \/ CoSource(1)
    \/ CoDataset(1)
    \/ CoModel(1)
    \/ CoTest(1)
    \/ CoPredict(1)
    \/ CoEvaluate(1)
    \/ CoCrossValidate(1)
    \/ CoFinish(1)
    \/ Separator(1)

SpecIO == Init /\ [][NextIO]_vars

\* C17: an I/O error on the defaults-file copy or on a log file (command
\* log, directory-stack log, truncation under --clear-logs) never ends the
\* run: the run goes on to its next statement.
C17_IOErrorsSwallowed == Me.io /= {} => Me.pc /= "failed"

\* the errors that are passed over are those of the truncation and of the
\* defaults-file copy: a run ends with an error only on the command log or
\* on the directory stack
C17_SwallowedWhereCaught ==
    Me.pc = "failed" => Me.io \cap {"command_log", "dirs_log"} /= {}

(***************************************************************************)
(* Concurrent invocations: non-resumed runs of the main command started    *)
(* from two shells in the same working directory, then a resume.           *)
(***************************************************************************)
ConcArgv == {<<"--train">>, <<"--train", "--output-dir", "out">>}

\* a resume has been issued
ResumeIssued == \E self \in Procs : HasFlag(proc[self].args, "--resume")

\* either shell starts a non-resumed run, the other shell's run being
\* possibly under way; the last invocation is left to the resume
StartConc ==
    /\ ~ResumeIssued
    /\ nruns < MaxRuns - 1
    /\ \E self \in Procs, args \in ConcArgv : Start(self, "main", args)

\* once the runs have ended, the first shell resumes
StartConcResume ==
    /\ nruns > 0
    /\ ~ResumeIssued
    /\ \A self \in Procs : proc[self].pc \in Ended
    /\ Start(1, "main", <<"--resume">>)

\* one statement of an invocation that nothing interrupts
Statement(self) ==
    \/ ClearLogs(self)
    \/ CommandHandling(self)
    \/ Parse(self)
    \/ Restore(self)
    \/ Output(self)
    \/ Defaults(self)
    \/ DirsLog(self)
    \/ Api(self)
    \/ Dispatch(self)
    \/ CoValidate(self)
    \/ CoPaths(self)
    \/ CoSource(self)
    \/ CoDataset(self)
    \/ CoModel(self)
    \/ CoTest(self)
    \/ CoPredict(self)
    \/ CoEvaluate(self)
    \/ CoCrossValidate(self)
    \/ CoFinish(self)
    \/ Separator(self)

NextConc ==
    \/ StartConc
    \/ StartConcResume
    \/ \E self \in Procs : Statement(self)

SpecConc == Init /\ [][NextConc]_vars

\* C18: a resume pairs the last line of the command log with the last line
\* of the directory stack whichever runs wrote them, so that after
\* concurrent runs whose appends interleaved it works with the command of
\* one run in the output directory of another.
C18_ResumePairsLastLines ==
    (Me.resume /\ Me.stored_dir /= NoDir) =>
        /\ Me.command = Last(cmdLog["main"]).line
        /\ Me.stored_dir = Last(dirLog["main"]).dir
        /\ Me.session_dir = Last(dirLog["main"]).dir

\* C18 witness: two concurrent runs have left the last command line and
\* the last directory line written by different runs, with different
\* directories, and the resume has run the command of the one in the
\* directory of the other
C18_Witness ==
    LET c == Last(cmdLog["main"])
        d == Last(dirLog["main"])
    IN  /\ Me.resume
        /\ Me.pc = "done"
        /\ c.run /= d.run
        /\ \E i \in 1..Len(dirLog["main"]) :
               /\ dirLog["main"][i].run = c.run
               /\ dirLog["main"][i].dir /= d.dir
        /\ Me.command = c.line
        /\ Me.stored_dir = d.dir
        /\ AbsPath(CheckDir(Me.cargs.predictions)) = d.dir

(***************************************************************************)
(* The command line character by character: what the recorder writes for   *)
(* an argument vector and what a resume reads back from it.  A token is a  *)
(* sequence of characters; the characters are a letter, the blank, the two *)
(* quotes and the backslash.                                               *)
(***************************************************************************)
Chars == {"a", " ", "'", "\"", "\\"}

Tokens == UNION {[1..n -> Chars] : n \in 0..MaxTokLen}

\* argument vectors of one or two tokens
ArgvChars == {<<t>> : t \in Tokens} \cup {<<t, u>> : t, u \in Tokens}

RECURSIVE EscapeQuotes(_)
\* every single quote of a token written as '"'"'
EscapeQuotes(token) ==
    IF token = <<>> THEN <<>>
    ELSE (IF Head(token) = "'" THEN <<"'", "\"", "'", "\"", "'">>
          ELSE <<Head(token)>>) \o EscapeQuotes(Tail(token))

\* a token as the shell would need it: left as it is when it holds plain
\* characters only, between single quotes otherwise
ShellQuote(token) ==
    IF token /= <<>> /\ \A i \in 1..Len(token) : token[i] = "a"
    THEN token
    ELSE <<"'">> \o EscapeQuotes(token) \o <<"'">>

RECURSIVE JoinQuoted(_)
JoinQuoted(argv) ==
    IF argv = <<>> THEN <<>>
    ELSE <<" ">> \o ShellQuote(Head(argv)) \o JoinQuoted(Tail(argv))

\* Command.command: the program name and the shell-escaped arguments
CommandLine(argv) == <<"b">> \o JoinQuoted(argv)

RECURSIVE Lex(_, _, _, _, _, _)
\* the tokenizer at character i of line: mode is "plain", "single" or
\* "double", cur the token being read (started tells whether there is
\* one), out the tokens read so far
Lex(line, i, mode, cur, started, out) ==
    IF i > Len(line)
    THEN IF started THEN Append(out, cur) ELSE out
    ELSE LET c == line[i]
         IN  IF mode = "single"
             THEN IF c = "'"
                  THEN Lex(line, i + 1, "plain", cur, TRUE, out)
                  ELSE Lex(line, i + 1, "single", Append(cur, c), TRUE, out)
             ELSE IF mode = "double"
             THEN IF c = "\""
                  THEN Lex(line, i + 1, "plain", cur, TRUE, out)
                  ELSE IF c = "\\" /\ i < Len(line)
                          /\ line[i + 1] \in {"\"", "\\"}
                  THEN Lex(line, i + 2, "double", Append(cur, line[i + 1]),
                           TRUE, out)
                  ELSE Lex(line, i + 1, "double", Append(cur, c), TRUE, out)
             ELSE IF c = " "
             THEN IF started
                  THEN Lex(line, i + 1, "plain", <<>>, FALSE,
                           Append(out, cur))
                  ELSE Lex(line, i + 1, "plain", <<>>, FALSE, out)
             ELSE IF c = "'"
             THEN Lex(line, i + 1, "single", cur, TRUE, out)
             ELSE IF c = "\""
             THEN Lex(line, i + 1, "double", cur, TRUE, out)
             ELSE IF c = "\\" /\ i < Len(line)
             THEN Lex(line, i + 2, "plain", Append(cur, line[i + 1]), TRUE,
                      out)
             ELSE Lex(line, i + 1, "plain", Append(cur, c), TRUE, out)

\* shlex.split(line)
ShlexSplit(line) == Lex(line, 1, "plain", <<>>, FALSE, <<>>)

\* an invocation with the argument vector argv is about to record its
\* command line; nothing has been logged yet
InitChars ==
    /\ cmdLog = [g \in Progs |-> <<>>]
    /\ dirLog = [g \in Progs |-> <<>>]
    /\ newDirsLog = <<[run |-> 0]>>
    /\ sessLog = [d \in SessDirs |-> <<>>]
    /\ \E argv \in ArgvChars :
           proc = [self \in Procs |->
                      IF self = 1
                      THEN [IdleProc EXCEPT !.pc = "command_handling",
                                            !.run = 1, !.args = argv]
                      ELSE IdleProc]
    /\ nruns = 1
    /\ issued = [g \in Progs |-> 0]
    /\ created = [d \in SessDirs |-> {}]
    /\ userLog = <<[run |-> 0]>>
    /\ clusterDatasets = {}

\* command_handling writing the arguments with blanks between them, not
\* the escaped command line
RecordLine_unquoted(self) ==
    LET me == proc[self]
        RECURSIVE Join(_)
        Join(argv) == IF argv = <<>> THEN <<>>
                      ELSE <<" ">> \o Head(argv) \o Join(Tail(argv))
    IN  /\ me.pc = "command_handling"
        /\ cmdLog' = [cmdLog EXCEPT ![me.prog] =
                          Append(@, [run |-> me.run,
                                     line |-> <<"b">> \o Join(me.args)])]
        /\ proc' = [proc EXCEPT ![self].pc = "restore"]
        /\ UNCHANGED <<dirLog, newDirsLog, sessLog, nruns, issued, created,
                       userLog, clusterDatasets>>

\* command_handling: command = Command(args, None);
\* command_log.write(command.command)
RecordLine(self) ==
    LET me == proc[self]
    IN  /\ me.pc = "command_handling"
        /\ cmdLog' = [cmdLog EXCEPT ![me.prog] =
                          Append(@, [run |-> me.run,
                                     line |-> CommandLine(me.args)])]
        /\ proc' = [proc EXCEPT ![self].pc = "restore"]
        /\ UNCHANGED <<dirLog, newDirsLog, sessLog, nruns, issued, created,
                       userLog, clusterDatasets>>

\* the resume branch reading the line back: StoredCommand(args,
\* COMMAND_LOG, DIRS_LOG); Command(None, stored_command)
RestoreLine(self) ==
    LET me == proc[self]
    IN  /\ me.pc = "restore"
        /\ proc' = [proc EXCEPT
                        ![self].command =
                            ShlexSplit(Last(cmdLog[me.prog]).line),
                        ![self].pc = "done"]
        /\ UNCHANGED <<cmdLog, dirLog, newDirsLog, sessLog, nruns, issued,
                       created, userLog, clusterDatasets>>

NextRoundTrip == RecordLine(1) \/ RestoreLine(1)

SpecRoundTrip == InitChars /\ [][NextRoundTrip]_vars

DefaultName(evaluate) == IF evaluate THEN "evaluation" ELSE "predictions.csv"

\* C20: without --predictions the output path of the main dispatcher is
\* <output directory>/evaluation in evaluation mode and
\* <output directory>/predictions.csv otherwise; on a resumed run the
\* evaluation mode is that of the restored command and the directory the
\* one restored from the directory stack.
C20_DefaultOutput ==
    /\ (~Me.resume /\ Me.directory /= NoDir
        /\ ~HasFlag(Me.args, "--predictions"))
           => Me.cargs.predictions =
                  PathJoin(IF HasValue(Me.args, "--output-dir", "out")
                           THEN MkDir("out", 0) ELSE NOW(Me.run),
                           DefaultName(HasFlag(Me.args, "--evaluate")))
    /\ (Me.resume /\ Me.stored_dir /= NoDir
        /\ ~HasFlag(StoredArgs(Last(cmdLog["main"]).line), "--predictions"))
           => Me.cargs.predictions =
                  PathJoin(Last(dirLog["main"]).dir,
                           DefaultName(HasFlag(
                               StoredArgs(Last(cmdLog["main"]).line),
                               "--evaluate")))

\* C20 witness: the resume of an evaluation run without --predictions has
\* returned with <restored directory>/evaluation as its output
C20_Witness ==
    /\ Me.pc = "done"
    /\ Me.args = <<"--resume">>
    /\ Me.command = <<"bigmler", "--train", "--evaluate",
                      "--output-dir", "out">>
    /\ Me.cargs.predictions = PathJoin(AbsPath(MkDir("out", 0)), "evaluation")
    /\ Last(dirLog["main"]).dir = AbsPath(MkDir("out", 0))

(***************************************************************************)
(* The main command and the cluster subcommand, one after the other.       *)
(***************************************************************************)
\* the command lines of the main command: an evaluation is asked for
MainHistoryArgv ==
    {<<"--train", "--evaluate">>,
     <<"--train", "--evaluate", "--clear-logs">>,
     <<"--resume">>,
     <<"--resume", "--clear-logs">>}

\* the command lines of the cluster subcommand: the centroids of a test set
\* are asked for
ClusterHistoryArgv ==
    {<<"--train", "--test">>,
     <<"--train", "--test", "--clear-logs">>,
     <<"--resume">>,
     <<"--resume", "--clear-logs">>}

StartHistory ==
    \/ \E args \in MainHistoryArgv : Start(1, "main", args)
    \/ \E args \in ClusterHistoryArgv : Start(1, "cluster", args)

NextHistory == StartHistory \/ Statement(1)

SpecHistory == Init /\ [][NextHistory]_vars

(***************************************************************************)
(* The main pipeline with the split, the categories, the votes and the     *)
(* evaluation, then resumed.                                               *)
(***************************************************************************)
OutputArgv ==
    {<<"--train">> \o Opt(s, <<"--test-split">>)
         \o Opt(m, <<"--max-categories", "--objective">>)
         \o Opt(v, <<"--combine-votes">>) \o Opt(e, <<"--evaluate">>)
         \o Opt(x, <<"--cross-validation-rate">>)
         \o Opt(o, <<"--dataset-off">>)
         \o Opt(n, <<"--number-of-models">>)
         \o Opt(t, <<"--test-datasets">>) :
        s \in BOOLEAN, m \in BOOLEAN, v \in BOOLEAN, e \in BOOLEAN,
        x \in BOOLEAN, o \in BOOLEAN, n \in BOOLEAN, t \in BOOLEAN}

StartOutput ==
    /\ nruns = 0
    /\ \E args \in OutputArgv : Start(1, "main", args)

StartOutputResume ==
    /\ nruns > 0
    /\ Start(1, "main", <<"--resume">>)

NextOutput ==
    \/ StartOutput
    \/ StartOutputResume
    \/ Statement(1)
    \/ CoSplit(1)
    \/ CoCategories(1)
    \/ CoVotes(1)

SpecOutput == Init /\ [][NextOutput]_vars

(***************************************************************************)
(* The datasets of the centroids of a cluster.                             *)
(***************************************************************************)
ClusterDatasetsArgv ==
    {<<"--cluster", "--cluster-datasets", v>> : v \in ClusterDatasetsValues}
        \cup {<<"--cluster">>}

StartClusterDatasets ==
    \E args \in ClusterDatasetsArgv : Start(1, "cluster", args)

NextClusterDatasets ==
    \/ StartClusterDatasets
    \/ ClearLogs(1)
    \/ CommandHandling(1)
    \/ Parse(1)
    \/ Output(1)
    \/ Defaults(1)
    \/ DirsLog(1)
    \/ Api(1)
    \/ Dispatch(1)
    \/ CoValidate(1)
    \/ CoPaths(1)
    \/ CoSource(1)
    \/ CoDataset(1)
    \/ CoModel(1)
    \/ CoTest(1)
    \/ CoPredict(1)
    \/ CoClusterDatasets(1)
    \/ CoFinish(1)
    \/ Separator(1)

SpecClusterDatasets == Init /\ [][NextClusterDatasets]_vars

(***************************************************************************)
(* Runs with the user's log file, then resumed.                            *)
(***************************************************************************)
LogFileArgv ==
    {<<"--train">>,
     <<"--train", "--log-file">>,
     <<"--train", "--log-file", "--clear-logs">>}

StartLogFile ==
    /\ nruns = 0
    /\ \E g \in Progs, args \in LogFileArgv : Start(1, g, args)

StartLogFileResume ==
    /\ nruns > 0
    /\ Start(1, proc[1].prog, <<"--resume">>)

NextLogFile == StartLogFile \/ StartLogFileResume \/ Step(1)

SpecLogFile == Init /\ [][NextLogFile]_vars

(***************************************************************************)
(* Failed checks, the user's log file, the histories of the two commands.  *)
(***************************************************************************)
\* the compulsory-flag checks of compute_output that end the run
ValidationFaults == {"description", "objective", "dataset"}

\* lines of a log written by the run `run`
OwnLines(log, run) == {i \in 1..Len(log) : log[i].run = run}

\* lines of the session logs written by the run `run`
OwnSessionLines(run) ==
    {<<d, i>> \in SessDirs \X (1..MaxRuns * 8) :
        i <= Len(sessLog[d]) /\ sessLog[d][i].run = run}

\* C26 as stated: when a compulsory-flag check of compute_output ends the
\* run, nothing has been appended for this run to the command log, the
\* directory-stack log or the session log.
C26_ValidationLeavesNoTrace ==
    Me.fault \in ValidationFaults =>
        /\ OwnLines(cmdLog["main"], Me.run) = {}
        /\ OwnLines(dirLog["main"], Me.run) = {}
        /\ OwnSessionLines(Me.run) = {}

\* C26 amended: when a compulsory-flag check of compute_output ends the
\* run, the run has exited with an error before any stage was entered, any
\* remote call made or any resource recorded by it; the command line, the
\* directory and the session-log line written before compute_output are in
\* place, the invalid command is the last line of the command log, and a
\* following --resume replays it.
C26_ValidationBeforeStages ==
    Me.fault \in ValidationFaults =>
        /\ Me.pc = "failed"
        /\ Me.exit = "error"
        /\ Me.stages = <<>>
        /\ Me.calls = 0
        /\ Me.creations = {}
        /\ OwnSessionLines(Me.run) /= {}
        /\ ~Me.resume => /\ Last(cmdLog["main"]).run = Me.run
                         /\ Last(dirLog["main"]).run = Me.run
        /\ Validation("main", RecordedArgs) = Me.fault
        /\ Me.cargs.black_box = RecordedArgs.black_box

\* C26 witness: a --resume that followed the run ended by the check of the
\* description has replayed the command and was ended by the same check
C26_Witness ==
    /\ Me.resume
    /\ Me.fault = "description"
    /\ Me.pc = "failed"
    /\ Len(cmdLog["main"]) = 1

\* C28 as stated: every line a resumed run writes to a session log (the
\* resumed command, the progress lines, the separator) goes to the session
\* log of the output directory restored from the directory-stack log, and
\* compute_output works in that directory.
C28_ResumedSessionInRestoredDir ==
    Resumed =>
        /\ \A l \in OwnSessionLines(Me.run) : l[1] = AbsPath(Me.stored_dir)
        /\ Me.co_session_dir \in {NoDir, AbsPath(Me.stored_dir)}

\* C28 without the bare --predictions file name: the lines go to the
\* restored directory
C28_ResumedSessionInRestoredDirUnlessBare ==
    Resumed /\ CheckDir(Me.cargs.predictions) /= EmptyDir =>
        /\ \A l \in OwnSessionLines(Me.run) : l[1] = AbsPath(Me.stored_dir)
        /\ Me.co_session_dir \in {NoDir, AbsPath(Me.stored_dir)}

\* the command whose command lines of SpecHistory hold the tokens of `line`
CommandOf(line) ==
    IF HasFlag(line, "--evaluate") THEN "main"
    ELSE IF HasFlag(line, "--test") THEN "cluster"
    ELSE "none"

\* the other command
Other(prog) == IF prog = "main" THEN "cluster" ELSE "main"

\* a step of an invocation leaves the command log and the directory-stack
\* log of the other command as they are
OwnHistoryStep ==
    /\ cmdLog'[Other(Me'.prog)] = cmdLog[Other(Me'.prog)]
    /\ dirLog'[Other(Me'.prog)] = dirLog[Other(Me'.prog)]

\* every line of the command log of a command was issued to that command,
\* and so was the command a resumed run has restored
OwnHistory ==
    /\ \A g \in Progs : \A i \in 1..Len(cmdLog[g]) :
           CommandOf(cmdLog[g][i].line) = g
    /\ (Me.resume /\ Me.stored_dir /= NoDir)
           => CommandOf(Me.command) = Me.prog

\* C27: the main command and the cluster subcommand keep separate resume
\* histories: no step of a main invocation (--clear-logs included) changes
\* the cluster command log or directory-stack log, no step of a cluster
\* invocation changes the main ones, and the command a --resume restores
\* was issued to the same command.
C27_SeparateHistories == []OwnHistory /\ [][OwnHistoryStep]_vars

\* C27 witness: a cluster run, then a main run, then `bigmler cluster
\* --resume`, which has restored the cluster run and returned
C27_Witness ==
    /\ Me.prog = "cluster"
    /\ Me.resume
    /\ Me.pc = "done"
    /\ Me.command = <<"bigmler", "--train", "--test">>
    /\ cmdLog["main"] /= <<>>
    /\ Last(cmdLog["main"]).run > Last(cmdLog["cluster"]).run

\* --clear-logs is on the command line of the invocation or of a command
\* still in the command log
ClearLogsAsked ==
    \/ HasFlag(Me.args, "--clear-logs")
    \/ \E i \in 1..Len(cmdLog[Me.prog]) :
           HasFlag(cmdLog[Me.prog][i].line, "--clear-logs")

\* the lines the user's log file held before the first invocation
EarlierContents == <<[run |-> 0]>>

\* C25 as stated: compute_output truncates the file given with --log-file
\* only when --clear-logs was passed; without --clear-logs, and on a
\* --resume run, the file still begins with what it held before.
C25_LogFileKeptWithoutClearLogs ==
    ~ClearLogsAsked =>
        /\ Len(userLog) >= Len(EarlierContents)
        /\ SubSeq(userLog, 1, Len(EarlierContents)) = EarlierContents

\* what compute_output does: a run given --log-file that is past the
\* statement holds in the file only lines of its own, with --clear-logs or
\* without; a file no run was given is left as it was
C25_LogFileTruncatedWhenGiven ==
    /\ (Me.cargs.log_file /\ Me.co_session_dir /= NoDir)
           => ForeignLines(userLog, Me.run) = {}
    /\ (\A i \in 1..Len(cmdLog[Me.prog]) :
            ~HasFlag(cmdLog[Me.prog][i].line, "--log-file"))
           => userLog = EarlierContents

\* the blocks of compute_output that end the run with sys.exit
StageFaults == {"not_categorical", "model"}

\* the kinds of the session-log lines written by the run `run`
OwnSessionKinds(run) ==
    {sessLog[l[1]][l[2]].kind : l \in OwnSessionLines(run)}

\* C24: a stage failure is terminal for the whole run: when the model of
\* the combine-votes step cannot be fetched, or max_categories is used
\* with an objective field that is not categorical, the run exits with an
\* error, no later stage (evaluation, cross-validation, report) runs, and
\* the command-log and directory-stack entries of the run, with what its
\* completed stages recorded, remain in place for a following --resume.
C24_StageFailureTerminal ==
    Me.fault \in StageFaults =>
        /\ Me.pc = "failed"
        /\ Me.exit = "error"
        /\ Entered \cap {"evaluate", "cross_validate", "report"} = {}
        /\ Me.evaluated.what = "none"
        /\ "generated" \notin OwnSessionKinds(Me.run)
        /\ Me.fault = "not_categorical" =>
               Entered \cap {"model", "predict", "votes"} = {}
        /\ CanRestore("main")
        /\ Last(cmdLog["main"]).line = Me.command
        /\ Last(dirLog["main"]).dir = AbsPath(Me.session_dir)
        /\ {"source", "dataset"} \subseteq created[Me.co_session_dir]
        /\ ~Me.resume => /\ Last(cmdLog["main"]).run = Me.run
                         /\ Last(dirLog["main"]).run = Me.run

\* C24 witness: the --resume of a run asked for an evaluation has gone
\* through the check of the categories, retrieving the source and the
\* dataset, and was ended by the votes block
C24_Witness ==
    /\ Me.resume
    /\ Me.fault = "model"
    /\ Me.cargs.evaluate
    /\ "categories" \in Entered
    /\ {"source", "dataset"} \cap Me.creations = {}

\* the evaluation the claim describes
ClaimedEvaluation ==
    [what |-> IF EnsembleIds(Me.cargs) /= {} THEN "ensembles" ELSE "models",
     on |-> {IF Me.cargs.test_split > 0 THEN "test_part" ELSE "dataset"}]

\* C30 as stated: with evaluate set and no test_dataset_ids the evaluation
\* is run against the test part of the split when test_split > 0 and
\* against the first dataset otherwise, and on the ensembles when there
\* is an ensemble id, on the models when there is none.
C30_EvaluationTarget ==
    (Me.evaluated.what /= "none" /\ ~Me.cargs.test_datasets)
        => Me.evaluated = ClaimedEvaluation

\* C30 amended: the same with dataset_off not set; under dataset_off the
\* datasets list is taken as the test datasets: the models, not the
\* ensembles, are evaluated against the first dataset, which after a split
\* is the training part.
C30_EvaluationTargetUnlessDatasetOff ==
    (Me.evaluated.what /= "none" /\ ~Me.cargs.test_datasets) =>
        /\ ~Me.cargs.dataset_off => Me.evaluated = ClaimedEvaluation
        /\ Me.cargs.dataset_off =>
               /\ Me.evaluated.what = "models"
               /\ Me.evaluated.on =
                      {IF Me.cargs.test_split > 0 THEN "training_part"
                       ELSE "dataset"}

\* C30 witness: the ensemble of a run with a split has been evaluated
\* against the test part
C30_Witness ==
    /\ Me.cargs.evaluate
    /\ ~Me.cargs.dataset_off
    /\ ~Me.cargs.test_datasets
    /\ Me.cargs.test_split > 0
    /\ Me.evaluated = [what |-> "ensembles", on |-> {"test_part"}]
    /\ Me.pc = "done"

\* a cluster run that is past the block of the cluster datasets
PastClusterDatasets ==
    /\ Me.prog = "cluster"
    /\ "cluster_datasets" \in Entered

\* C29: with cluster_datasets a list of names, a dataset is asked for a
\* named centroid only if the cluster recorded none for it when the block
\* was entered (exactly for those), so an invocation that finds a dataset
\* recorded for every name asks for none; with cluster_datasets empty, a
\* dataset is asked for every centroid of the cluster, one call each; once
\* asked for, the datasets are recorded by the cluster.
C29_ClusterDatasetsOnce ==
    PastClusterDatasets =>
        LET value == Me.cargs.cluster_datasets
        IN  /\ value /= "" =>
                   /\ Me.centroid_ids = ClusterNames(value) \ Me.datasets
                   /\ ClusterNames(value) \subseteq Me.datasets
                          => Me.calls = 0
            /\ value = "" => Me.centroid_ids = Centroids
            /\ Me.calls = Cardinality(Me.centroid_ids)
            /\ Me.centroid_ids \subseteq clusterDatasets
            /\ Me.datasets \subseteq clusterDatasets

\* C29 witness: the invocation with the names c1 and c2 repeated: the
\* cluster records a dataset for both and none is asked for
C29_Witness ==
    /\ PastClusterDatasets
    /\ Me.cargs.cluster_datasets = "c1,c2"
    /\ Me.datasets = {"c1", "c2"}
    /\ Me.centroid_ids = {}
    /\ Me.run = 2
    /\ Me.pc = "done"

====
